---- MODULE Spec2Model ----
(***************************************************************************)
(* Lumina Studio: the application shell (App), the Stage frame loop and    *)
(* the GeminiService adapter, as a state machine.                          *)
(*                                                                         *)
(* Strings the code manipulates are sequences of one-character strings or  *)
(* of tokens; time is in milliseconds.                                     *)
(***************************************************************************)
EXTENDS Integers, Sequences, FiniteSets, Bags, TLC

(* ------------------------------ bounds -------------------------------- *)
\* Assets ever created (crypto.randomUUID is modelled by a counter).
MaxIds == 3
\* Files in one upload.
MaxUpload == 2
\* AI handler invocations awaiting their service call at the same time.
MaxCalls == 2
\* Recording sessions ever started.
MaxSessions == 2
\* Granularity of the clock and the last instant explored (ms).
Tick == 1000
MaxTime == 8000

(* --------------------------- program constants ------------------------ *)
SLIDE_DURATION == 3000
RECORD_MS == 5000
POLL_MS == 5000
DRIVE_MS == 1000
SLIDER_MIN == 0
SLIDER_MAX == 200
BLUR_MAX == 20

NullId == 0
NullTime == 0

IDLE == "IDLE"
PLAYING == "PLAYING"
RECORDING == "RECORDING"
GENERATING_AI == "GENERATING_AI"
ProjectStatus == {IDLE, PLAYING, RECORDING, GENERATING_AI}

DEFAULT_FILTERS ==
    [brightness |-> 100, contrast |-> 100, saturation |-> 100, blur |-> 0, sepia |-> 0]

(* ------------------------------ strings ------------------------------- *)
\* String.prototype.startsWith
StartsWith(s, p) == Len(s) >= Len(p) /\ SubSeq(s, 1, Len(p)) = p

ImageWord == <<"i", "m", "a", "g", "e">>
\* MIME types of the files a user can pick.
ImagePng == <<"i", "m", "a", "g", "e", "/", "p", "n", "g">>
VideoMp4 == <<"v", "i", "d", "e", "o", "/", "m", "p", "4">>
XImage == <<"x", "-", "i", "m", "a", "g", "e">>
FileTypes == {ImagePng, VideoMp4, XImage}

Min(a, b) == IF a <= b THEN a ELSE b
Max(a, b) == IF a >= b THEN a ELSE b

(* ------------------------------- state -------------------------------- *)
VARIABLES
    assets,           \* App: Asset[] (id, file = MIME type of the File, type, url)
    selectedAssetId,  \* App: string | null
    filters,          \* App: FilterSettings
    projectName,      \* App
    projectStatus,    \* App
    isAiProcessing,   \* App
    aiMessage,        \* App
    veoPrompt,        \* App
    hasService,       \* App: geminiServiceRef.current !== null
    nextId,           \* the next value crypto.randomUUID returns
    calls,            \* AI handler invocations suspended at their await (a bag)
    recorders,        \* MediaRecorder sessions started by handleDownloadVideo
    loop,             \* Stage animation effect: pending frame, startTime, lastIndex
    currentIndex,     \* Stage
    now,              \* the clock (ms)
    last,             \* the operation that ran last, its argument, dialog and result
    toggleRun,        \* consecutive handlePlayPause calls since an IDLE state
    run,              \* the playback run of the Stage loop: started, completions, interrupted
    currentTrack,     \* App state: the id of the audio track, NullTrack when null
    isAutoEnhanceAudio, \* App state, the Stage's audioEnhanced prop
    sourceNodeRef,    \* Stage ref: TRUE once the media element source node is made
    compressorNodeRef, \* Stage ref: TRUE once the compressor node is made
    connections       \* the connect() edges of the audio graph, <<from, to>>

vars == <<assets, selectedAssetId, filters, projectName, projectStatus,
          isAiProcessing, aiMessage, veoPrompt, hasService, nextId, calls,
          recorders, loop, currentIndex, now, last, toggleRun, run,
          currentTrack, isAutoEnhanceAudio, sourceNodeRef, compressorNodeRef,
          connections>>

audioVars == <<currentTrack, isAutoEnhanceAudio, sourceNodeRef, compressorNodeRef,
               connections>>

NullTrack == ""

NoAlert == "none"
Op(op, arg, alert, result) == [op |-> op, arg |-> arg, alert |-> alert, result |-> result]

\* The Stage animation effect after a render in which one of its
\* dependencies (isPlaying, assets, filterSettings) changed: the cleanup
\* cancels the pending frame, the effect requests one when playing.
StageEffect(isPlaying) ==
    [scheduled |-> isPlaying, startTime |-> NullTime, lastIndex |-> -1]

NoToggles == [n |-> 0, snap |-> <<>>]

\* The run the effect starts (or not) when it re-runs.
RunOf(isPlaying) == [started |-> isPlaying, completions |-> 0, interrupted |-> FALSE]

UntitledProject ==
    <<"U", "n", "t", "i", "t", "l", "e", "d", " ", "P", "r", "o", "j", "e", "c", "t">>

Init ==
    /\ assets = <<>>
    /\ selectedAssetId = NullId
    /\ filters = DEFAULT_FILTERS
    /\ projectName = UntitledProject
    /\ projectStatus = IDLE
    /\ isAiProcessing = FALSE
    /\ aiMessage = ""
    /\ veoPrompt = ""
    /\ hasService \in BOOLEAN
    /\ nextId = 1
    /\ calls = EmptyBag
    /\ recorders = <<>>
    /\ loop = StageEffect(FALSE)
    /\ currentIndex = 0
    /\ now = Tick
    /\ last = Op("init", 0, NoAlert, "")
    /\ toggleRun = NoToggles
    /\ run = RunOf(FALSE)
    /\ currentTrack = NullTrack
    /\ isAutoEnhanceAudio = FALSE
    /\ sourceNodeRef = FALSE
    /\ compressorNodeRef = FALSE
    /\ connections = {}

(* ------------------------------ assets -------------------------------- *)
AssetIds(as) == {as[i].id : i \in 1..Len(as)}

\* file.type.startsWith('image') ? 'image' : 'video'
AssetTypeOf_m(mime) == IF mime = ImageWord THEN "image" ELSE "video"
AssetTypeOf(mime) == IF StartsWith(mime, ImageWord) THEN "image" ELSE "video"

\* Array.from(files).map(file => ({id, file, type, url}))
NewAssets(files, firstId) ==
    [i \in 1..Len(files) |->
        [id |-> firstId + i - 1, file |-> files[i],
         type |-> AssetTypeOf(files[i]), url |-> <<"blob:", ToString(firstId + i - 1)>>]]

\* setAssets(prev => [...prev, ...newAssets])
AppendAssets(prev, newAssets) == prev \o newAssets

FileLists == UNION {[1..n -> FileTypes] : n \in 0..MaxUpload}

handleUpload(files) ==
    /\ UNCHANGED audioVars
    /\ nextId + Len(files) - 1 <= MaxIds
    /\ assets' = AppendAssets(assets, NewAssets(files, nextId))
    /\ nextId' = nextId + Len(files)
    /\ loop' = StageEffect(projectStatus = PLAYING)
    /\ run' = RunOf(projectStatus = PLAYING)
    /\ last' = Op("upload", files, NoAlert, "")
    /\ toggleRun' = NoToggles
    /\ UNCHANGED <<selectedAssetId, filters, projectName, projectStatus,
                   isAiProcessing, aiMessage, veoPrompt, hasService, calls,
                   recorders, currentIndex, now>>

Upload == \E files \in FileLists : handleUpload(files)

\* An upload of n PNG images.
UploadPng == \E n \in 0..MaxUpload : handleUpload([i \in 1..n |-> ImagePng])

\* onSelect={asset => setSelectedAssetId(asset.id)}, one tile per asset
Select ==
    \E i \in 1..Len(assets) :
        /\ selectedAssetId' = assets[i].id
        /\ UNCHANGED audioVars
        /\ last' = Op("select", assets[i].id, NoAlert, "")
        /\ toggleRun' = NoToggles
        /\ UNCHANGED <<assets, filters, projectName, projectStatus, isAiProcessing,
                       aiMessage, veoPrompt, hasService, nextId, calls, recorders,
                       loop, currentIndex, now, run>>

\* prev.filter(a => a.id !== id)
WithoutAsset(prev, id) == SelectSeq(prev, LAMBDA a : a.id # id)

\* if (selectedAssetId === id) setSelectedAssetId(null)
SelectionAfterRemove_m(sel, id) == NullId
SelectionAfterRemove_m2(sel, id) == sel
SelectionAfterRemove(sel, id) == IF sel = id THEN NullId ELSE sel

handleRemoveAsset(id) ==
    /\ UNCHANGED audioVars
    /\ assets' = WithoutAsset(assets, id)
    /\ selectedAssetId' = SelectionAfterRemove(selectedAssetId, id)
    /\ loop' = StageEffect(projectStatus = PLAYING)
    /\ run' = RunOf(projectStatus = PLAYING)
    /\ last' = Op("remove", id, NoAlert, selectedAssetId)
    /\ toggleRun' = NoToggles
    /\ UNCHANGED <<filters, projectName, projectStatus, isAiProcessing, aiMessage,
                   veoPrompt, hasService, nextId, calls, recorders, currentIndex, now>>

\* the remove button of an asset tile
Remove == \E i \in 1..Len(assets) : handleRemoveAsset(assets[i].id)

(* ----------------------------- playback ------------------------------- *)
\* setProjectStatus(new) and the render it causes: the Stage animation
\* effect re-runs only when isPlaying changes.
SetStatusEffects(new) ==
    LET was == projectStatus = PLAYING
        is == new = PLAYING
    IN /\ projectStatus' = new
       /\ loop' = IF was # is THEN StageEffect(is) ELSE loop
       /\ run' = IF was = is THEN run
                 ELSE IF is THEN RunOf(TRUE)
                 ELSE [run EXCEPT !.interrupted = loop.scheduled]

\* handlePlayPause
TogglePlay_m(status) == PLAYING
TogglePlay(status) == IF status = PLAYING THEN IDLE ELSE PLAYING

Others == <<assets, selectedAssetId, filters, projectName, isAiProcessing,
            aiMessage, veoPrompt, hasService, nextId, calls, recorders>>

HandlePlayPause ==
    /\ UNCHANGED audioVars
    /\ SetStatusEffects(TogglePlay(projectStatus))
    /\ toggleRun' = IF toggleRun.n = 1 THEN [toggleRun EXCEPT !.n = 2]
                    ELSE IF projectStatus = IDLE THEN [n |-> 1, snap |-> Others]
                    ELSE NoToggles
    /\ last' = Op("playPause", projectStatus, NoAlert, "")
    /\ UNCHANGED <<assets, selectedAssetId, filters, projectName, isAiProcessing,
                   aiMessage, veoPrompt, hasService, nextId, calls, recorders,
                   currentIndex, now>>

\* The Stage renders its play button only when !isPlaying && assets.length > 0.
ClickPlay ==
    /\ projectStatus # PLAYING
    /\ Len(assets) > 0
    /\ HandlePlayPause

\* elapsed >= totalDuration
PlaybackOver_m(elapsed, n) == elapsed > n * SLIDE_DURATION
PlaybackOver(elapsed, n) == elapsed >= n * SLIDE_DURATION

\* Math.floor(elapsed / SLIDE_DURATION) % assets.length
SlideIndex_m(elapsed, n) == ((elapsed + SLIDE_DURATION - 1) \div SLIDE_DURATION) % n
SlideIndex(elapsed, n) == (elapsed \div SLIDE_DURATION) % n

\* render(timestamp), the requestAnimationFrame callback, at timestamp = now
Frame ==
    /\ UNCHANGED audioVars
    /\ loop.scheduled
    /\ LET startTime == IF loop.startTime = NullTime THEN now ELSE loop.startTime
           elapsed == now - startTime
           n == Len(assets)
       IN IF n = 0
          THEN \* "No assets loaded": returns without requesting a frame
               /\ loop' = [loop EXCEPT !.scheduled = FALSE, !.startTime = startTime]
               /\ last' = Op("frame", elapsed, NoAlert, "empty")
               /\ UNCHANGED <<projectStatus, currentIndex, run>>
          ELSE IF PlaybackOver(elapsed, n)
          THEN \* onPlaybackComplete() = handlePlaybackComplete
               /\ projectStatus' = IDLE
               /\ loop' = StageEffect(FALSE)
               /\ run' = [run EXCEPT !.completions = @ + 1]
               /\ last' = Op("frame", elapsed, NoAlert, "complete")
               /\ UNCHANGED currentIndex
          ELSE LET index == SlideIndex(elapsed, n)
               IN /\ currentIndex' = IF index # loop.lastIndex THEN index ELSE currentIndex
                  /\ loop' = [scheduled |-> TRUE, startTime |-> startTime,
                              lastIndex |-> index]
                  /\ last' = Op("frame", elapsed, NoAlert, "drawn")
                  /\ UNCHANGED <<projectStatus, run>>
    /\ toggleRun' = NoToggles
    /\ UNCHANGED <<assets, selectedAssetId, filters, projectName, isAiProcessing,
                   aiMessage, veoPrompt, hasService, nextId, calls, recorders, now>>

(* ----------------------------- recording ------------------------------ *)
IsWs(c) == c \in {" ", "\t", "\n"}

RECURSIVE DropWs(_)
DropWs(s) == IF s # <<>> /\ IsWs(Head(s)) THEN DropWs(Tail(s)) ELSE s

\* name.replace(/\s+/g, '_')
RECURSIVE ReplaceWs(_)
ReplaceWs(s) ==
    IF s = <<>> THEN <<>>
    ELSE IF IsWs(Head(s)) THEN <<"_">> \o ReplaceWs(DropWs(Tail(s)))
    ELSE <<Head(s)>> \o ReplaceWs(Tail(s))

\* setTimeout(..., 5000), called at instant t
RecordDeadline_m(t) == t + SLIDE_DURATION
RecordDeadline(t) == t + RECORD_MS

\* handleDownloadVideo: a MediaRecorder of its own, started, and a timer
\* that stops it RECORD_MS later. The onstop closure holds projectName.
handleDownloadVideo ==
    /\ UNCHANGED audioVars
    /\ Len(recorders) < MaxSessions
    /\ recorders' = Append(recorders,
          [state |-> "recording", timer |-> RecordDeadline(now), stops |-> 0,
           name |-> projectName, download |-> <<>>, driveAt |-> NullTime])
    /\ SetStatusEffects(RECORDING)
    /\ last' = Op("export", Len(recorders) + 1, NoAlert, "")
    /\ toggleRun' = NoToggles
    /\ UNCHANGED <<assets, selectedAssetId, filters, projectName, isAiProcessing,
                   aiMessage, veoPrompt, hasService, nextId, calls, currentIndex, now>>

\* The timer callback of session i: mediaRecorder.stop() (whose onstop
\* downloads the clip and asks about Drive) and setProjectStatus(IDLE).
RecordTimer(i) ==
    /\ UNCHANGED audioVars
    /\ recorders[i].state = "recording"
    /\ now >= recorders[i].timer
    /\ \E toDrive \in BOOLEAN :
          recorders' = [recorders EXCEPT ![i] =
              [@ EXCEPT !.state = "inactive", !.timer = NullTime, !.stops = @ + 1,
                        !.download = ReplaceWs(recorders[i].name) \o <<".webm">>,
                        !.driveAt = IF toDrive THEN now + DRIVE_MS ELSE NullTime]]
    /\ SetStatusEffects(IDLE)
    /\ last' = Op("recordTimer", i, NoAlert, "")
    /\ toggleRun' = NoToggles
    /\ UNCHANGED <<assets, selectedAssetId, filters, projectName, isAiProcessing,
                   aiMessage, veoPrompt, hasService, nextId, calls, currentIndex, now>>

RecordTimers == \E i \in 1..Len(recorders) : RecordTimer(i)

\* setTimeout(() => alert("Saved to Drive (Simulated)"), 1000)
DriveAlert(i) ==
    /\ UNCHANGED audioVars
    /\ recorders[i].driveAt # NullTime
    /\ now >= recorders[i].driveAt
    /\ recorders' = [recorders EXCEPT ![i].driveAt = NullTime]
    /\ last' = Op("driveAlert", i, "Saved to Drive (Simulated)", "")
    /\ toggleRun' = NoToggles
    /\ UNCHANGED <<assets, selectedAssetId, filters, projectName, projectStatus,
                   isAiProcessing, aiMessage, veoPrompt, hasService, nextId, calls,
                   loop, currentIndex, now, run>>

DriveAlerts == \E i \in 1..Len(recorders) : DriveAlert(i)

(* -------------------------------- time -------------------------------- *)
\* The instants at which a pending setTimeout callback is due.
Deadlines ==
    {recorders[i].timer : i \in {j \in 1..Len(recorders) :
                                   recorders[j].timer # NullTime}}
    \cup {recorders[i].driveAt : i \in {j \in 1..Len(recorders) :
                                         recorders[j].driveAt # NullTime}}
    \cup {c.wakeAt : c \in {d \in BagToSet(calls) : d.wakeAt # NullTime}}

\* Time passes, up to the next due timer: a due callback runs first.
AdvanceTime ==
    /\ UNCHANGED audioVars
    /\ \A d \in Deadlines : d > now
    /\ now' = IF \E d \in Deadlines : d < now + Tick
              THEN CHOOSE d \in Deadlines : \A e \in Deadlines : d <= e
              ELSE now + Tick
    /\ now' <= MaxTime
    /\ last' = Op("tick", 0, NoAlert, "")
    /\ UNCHANGED <<assets, selectedAssetId, filters, projectName, projectStatus,
                   isAiProcessing, aiMessage, veoPrompt, hasService, nextId, calls,
                   recorders, loop, currentIndex, toggleRun, run>>

(* --------------------------- GeminiService ---------------------------- *)
\* What a handler gets back from its await: a string, null or a rejection.
Value(v) == [kind |-> "value", value |-> v]
Null == [kind |-> "null", value |-> <<>>]
Rejected == [kind |-> "rejected", value |-> <<>>]

RECURSIVE Reverse(_)
Reverse(s) == IF s = <<>> THEN <<>> ELSE Reverse(Tail(s)) \o <<Head(s)>>

\* String.prototype.trim
Trim(s) == Reverse(DropWs(Reverse(DropWs(s))))

MyAwesomeVideo ==
    <<"M", "y", " ", "A", "w", "e", "s", "o", "m", "e", " ", "V", "i", "d", "e", "o">>

\* The answers of generateContent to the title request: the request (or the
\* reading of a file) fails, or a response with or without text arrives.
TitleTexts == {<<" ">>, <<" ", "\"", "A", " ", "B", "\"", "\n">>}
ContentResponses(texts) ==
    {[fail |-> TRUE, hasText |-> FALSE, text |-> <<>>],
     [fail |-> FALSE, hasText |-> FALSE, text |-> <<>>]}
    \cup {[fail |-> FALSE, hasText |-> TRUE, text |-> t] : t \in texts}

\* generateTitle: response.text?.trim() || "Untitled Project", and the
\* catch that returns "My Awesome Video"
generateTitle(resp) ==
    IF resp.fail THEN Value(MyAwesomeVideo)
    ELSE LET t == IF resp.hasText THEN Trim(resp.text) ELSE <<>>
         IN IF t # <<>> THEN Value(t) ELSE Value(UntitledProject)

\* The text of a filter suggestion, in tokens: the code-fence markers
\* (three backticks, with or without "json"), white space, and a body that is the JSON text of an object (v: its
\* members), the JSON text null, or no JSON at all.
FenceJson == [t |-> "fence-json", v |-> {}]
Fence == [t |-> "fence", v |-> {}]
Ws == [t |-> "ws", v |-> {}]
ObjectText(members) == [t |-> "object", v |-> members]
NullText == [t |-> "null", v |-> {}]
Prose == [t |-> "prose", v |-> {}]

InRangeJson == ObjectText({<<"brightness", 110>>, <<"contrast", 105>>, <<"saturation", 120>>})
OutOfRangeJson == ObjectText({<<"brightness", 250>>, <<"blur", -1>>})
ExtraKeyJson == ObjectText({<<"hue", 10>>})
EmptyObjectText == <<ObjectText({})>>

SuggestionTexts ==
    {<<>>, <<InRangeJson>>, <<FenceJson, Ws, InRangeJson, Ws, Fence>>,
     <<OutOfRangeJson>>, <<ExtraKeyJson>>, <<NullText>>, <<Prose, InRangeJson>>}

\* suggestFilters: response.text || "{}", and the catch that returns "{}"
suggestFilters(resp) ==
    IF resp.fail THEN Value(EmptyObjectText)
    ELSE IF resp.hasText /\ resp.text # <<>> THEN Value(resp.text)
    ELSE Value(EmptyObjectText)

\* The answers of generateVideos and getVideosOperation: a failure, or an
\* operation with its done flag and, when done, maybe a video uri.
UriA == <<"https://video/1?alt=media">>
ApiKey == "API_KEY"
OperationResponses ==
    {[fail |-> TRUE, done |-> FALSE, hasUri |-> FALSE, uri |-> <<>>],
     [fail |-> FALSE, done |-> FALSE, hasUri |-> FALSE, uri |-> <<>>],
     [fail |-> FALSE, done |-> TRUE, hasUri |-> FALSE, uri |-> <<>>],
     [fail |-> FALSE, done |-> TRUE, hasUri |-> TRUE, uri |-> <<>>],
     [fail |-> FALSE, done |-> TRUE, hasUri |-> TRUE, uri |-> UriA]}

\* The end of animateImage and generateVideoFromText once the operation is
\* done: uri + "&key=" + apiKey, or null; the catch rethrows.
VideoResult_m(resp) ==
    IF resp.fail THEN Rejected
    ELSE IF resp.hasUri /\ resp.uri # <<>> THEN Value(resp.uri)
    ELSE Null
VideoResult(resp) ==
    IF resp.fail THEN Rejected
    ELSE IF resp.hasUri /\ resp.uri # <<>> THEN Value(resp.uri \o <<"&key=", ApiKey>>)
    ELSE Null

(* ---------------------------- AI handlers ----------------------------- *)
\* assets.find(a => a.id === selectedAssetId): its index, 0 when undefined
FindAsset(as, id) ==
    IF \E i \in 1..Len(as) : as[i].id = id
    THEN CHOOSE i \in 1..Len(as) : as[i].id = id /\ \A j \in 1..(i - 1) : as[j].id # id
    ELSE 0

\* The handler returns before its try block: at most a dialog.
EarlyReturn(handler, alert) ==
    /\ UNCHANGED audioVars
    /\ last' = Op(handler, 0, alert, "returned")
    /\ toggleRun' = NoToggles
    /\ UNCHANGED <<assets, selectedAssetId, filters, projectName, projectStatus,
                   isAiProcessing, aiMessage, veoPrompt, hasService, nextId, calls,
                   recorders, loop, currentIndex, now, run>>

\* setIsAiProcessing(true); setAiMessage(message); the service call, up to
\* its first await.
StartCall(handler, message) ==
    /\ UNCHANGED audioVars
    /\ BagCardinality(calls) < MaxCalls
    /\ isAiProcessing' = TRUE
    /\ aiMessage' = message
    /\ calls' = calls (+) SetToBag({[handler |-> handler, phase |-> "request",
                                      wakeAt |-> NullTime]})
    /\ last' = Op(handler, 0, NoAlert, "started")
    /\ toggleRun' = NoToggles
    /\ UNCHANGED <<assets, selectedAssetId, filters, projectName, projectStatus,
                   veoPrompt, hasService, nextId, recorders, loop, currentIndex,
                   now, run>>

generateAutoName ==
    IF ~hasService
    THEN EarlyReturn("generateAutoName", "AI Service not initialized. Missing API Key.")
    ELSE IF Len(assets) = 0 THEN EarlyReturn("generateAutoName", NoAlert)
    ELSE StartCall("generateAutoName", "Analyzing visuals...")

applySmartFilters ==
    LET k == FindAsset(assets, selectedAssetId)
    IN IF ~hasService THEN EarlyReturn("applySmartFilters", "AI Service not initialized.")
       ELSE IF k = 0
       THEN EarlyReturn("applySmartFilters", "Please select an image asset first.")
       ELSE StartCall("applySmartFilters", "Calculating optimal aesthetics...")

generateVeoClip ==
    LET k == FindAsset(assets, selectedAssetId)
    IN IF ~hasService THEN EarlyReturn("generateVeoClip", "AI Service not initialized.")
       ELSE IF k = 0 \/ assets[k].type # "image"
       THEN EarlyReturn("generateVeoClip", "Select an image to animate.")
       ELSE StartCall("generateVeoClip", "Dreaming up motion (this may take a minute)...")

handleGenerateVeoText ==
    IF ~hasService THEN EarlyReturn("handleGenerateVeoText", "AI Service not initialized.")
    ELSE IF veoPrompt = "" THEN EarlyReturn("handleGenerateVeoText", NoAlert)
    ELSE StartCall("handleGenerateVeoText",
                   "Directing your scene (this may take a minute)...")

\* The buttons: AI Auto-Name is always enabled, AI Suggest is disabled
\* without a selection, the two Veo buttons also while isAiProcessing.
ClickAutoName == generateAutoName
ClickAiSuggest == selectedAssetId # NullId /\ applySmartFilters
ClickAnimate == selectedAssetId # NullId /\ ~isAiProcessing /\ generateVeoClip
ClickTextToVideo == veoPrompt # "" /\ ~isAiProcessing /\ handleGenerateVeoText

\* onChange of the prompt input
Prompts == {"", "a sunset"}
SetVeoPrompt ==
    \E p \in Prompts :
        /\ veoPrompt' = p
        /\ UNCHANGED audioVars
        /\ last' = Op("setVeoPrompt", p, NoAlert, "")
        /\ toggleRun' = NoToggles
        /\ UNCHANGED <<assets, selectedAssetId, filters, projectName, projectStatus,
                       isAiProcessing, aiMessage, hasService, nextId, calls, recorders,
                       loop, currentIndex, now, run>>

\* setIsAiProcessing(false); setAiMessage("") after the try/catch, whatever
\* the await gave (kind).
ClearBusy_m(kind) ==
    IF kind = "rejected" THEN [busy |-> isAiProcessing, message |-> aiMessage]
    ELSE [busy |-> FALSE, message |-> ""]
ClearBusy(kind) == [busy |-> FALSE, message |-> ""]

\* title.replace(/"/g, '')
RemoveQuotes(s) == SelectSeq(s, LAMBDA c : c # "\"")

\* generateAutoName resumes with the answer to the title request.
TitleResponse(c) ==
    /\ UNCHANGED audioVars
    /\ c.handler = "generateAutoName"
    /\ c.phase = "request"
    /\ \E resp \in ContentResponses(TitleTexts) :
          LET out == generateTitle(resp)
          IN /\ projectName' = IF out.kind = "value" THEN RemoveQuotes(out.value)
                               ELSE projectName
             /\ isAiProcessing' = ClearBusy(out.kind).busy
             /\ aiMessage' = ClearBusy(out.kind).message
             /\ last' = Op("settle",
                           [handler |-> "generateAutoName", fail |-> resp.fail,
                            parseError |-> FALSE],
                           IF out.kind = "value" THEN NoAlert
                           ELSE "Failed to generate title.", out.kind)
    /\ calls' = calls (-) SetToBag({c})
    /\ toggleRun' = NoToggles
    /\ UNCHANGED <<assets, selectedAssetId, filters, projectStatus, veoPrompt,
                   hasService, nextId, recorders, loop, currentIndex, now, run>>

\* jsonStr.replace(/(fence)json|(fence)/g, '').trim()
CleanJson(text) ==
    LET noFence == SelectSeq(text, LAMBDA x : x.t \notin {"fence-json", "fence"})
        DropW(q) == IF q # <<>> /\ Head(q).t = "ws" THEN Tail(q) ELSE q
        RECURSIVE Strip(_)
        Strip(q) == IF DropW(q) = q THEN q ELSE Strip(DropW(q))
    IN Reverse(Strip(Reverse(Strip(noFence))))

\* JSON.parse: one JSON value, white space around it allowed
JsonParse_m(text) ==
    LET body == SelectSeq(text, LAMBDA x : x.t \in {"object", "null"})
    IN IF body # <<>>
       THEN [ok |-> TRUE, members |-> body[1].v]
       ELSE [ok |-> FALSE, members |-> {}]
JsonParse(text) ==
    LET body == SelectSeq(text, LAMBDA x : x.t # "ws")
    IN IF Len(body) = 1 /\ body[1].t \in {"object", "null"}
       THEN [ok |-> TRUE, members |-> body[1].v]
       ELSE [ok |-> FALSE, members |-> {}]

\* ({...prev, ...suggestions})
MergeFilters(prev, members) ==
    LET keys == {m[1] : m \in members}
    IN [k \in DOMAIN prev \cup keys |->
          IF k \in keys THEN (CHOOSE m \in members : m[1] = k)[2] ELSE prev[k]]

\* applySmartFilters resumes with the answer to the suggestion request.
FilterResponse(c, texts) ==
    /\ UNCHANGED audioVars
    /\ c.handler = "applySmartFilters"
    /\ c.phase = "request"
    /\ \E resp \in ContentResponses(texts) :
          LET out == suggestFilters(resp)
              parsed == IF out.kind = "value" THEN JsonParse(CleanJson(out.value))
                        ELSE [ok |-> FALSE, members |-> {}]
          IN /\ IF parsed.ok
                THEN /\ filters' = MergeFilters(filters, parsed.members)
                     /\ loop' = StageEffect(projectStatus = PLAYING)
                     /\ run' = RunOf(projectStatus = PLAYING)
                ELSE UNCHANGED <<filters, loop, run>>
             /\ isAiProcessing' = ClearBusy(out.kind).busy
             /\ aiMessage' = ClearBusy(out.kind).message
             /\ last' = Op("settle",
                           [handler |-> "applySmartFilters", fail |-> resp.fail,
                            parseError |-> ~parsed.ok, text |-> out.value],
                           NoAlert, out.kind)
    /\ calls' = calls (-) SetToBag({c})
    /\ toggleRun' = NoToggles
    /\ UNCHANGED <<assets, selectedAssetId, projectName, projectStatus, veoPrompt,
                   hasService, nextId, recorders, currentIndex, now>>

\* if (videoUrl): the handler adds an asset for the URL it got.
AppendsAsset_m(out) == out.kind # "rejected"
AppendsAsset(out) == out.kind = "value"

\* animateImage / generateVideoFromText get the answer to generateVideos or
\* to a poll: while the operation is not done they sleep POLL_MS and poll
\* again; otherwise generateVeoClip / handleGenerateVeoText resumes.
VideoResponse(c) ==
    /\ UNCHANGED audioVars
    /\ c.handler \in {"generateVeoClip", "handleGenerateVeoText"}
    /\ c.phase \in {"request", "poll"}
    /\ toggleRun' = NoToggles
    /\ \E resp \in OperationResponses :
          IF ~resp.fail /\ ~resp.done
          THEN /\ calls' = (calls (-) SetToBag({c}))
                              (+) SetToBag({[c EXCEPT !.phase = "sleeping",
                                                      !.wakeAt = now + POLL_MS]})
               /\ last' = Op("response", c.handler, NoAlert, "pending")
               /\ UNCHANGED <<assets, selectedAssetId, filters, projectName,
                              projectStatus, isAiProcessing, aiMessage, veoPrompt,
                              hasService, nextId, recorders, loop, currentIndex, now,
                              run>>
          ELSE LET out == VideoResult(resp)
                   text == c.handler = "handleGenerateVeoText"
               IN /\ IF AppendsAsset(out)
                     THEN /\ nextId <= MaxIds
                          /\ assets' = Append(assets,
                                [id |-> nextId, file |-> VideoMp4, type |-> "video",
                                 url |-> out.value])
                          /\ nextId' = nextId + 1
                          /\ veoPrompt' = IF text THEN "" ELSE veoPrompt
                          /\ loop' = StageEffect(projectStatus = PLAYING)
                          /\ run' = RunOf(projectStatus = PLAYING)
                     ELSE UNCHANGED <<assets, nextId, veoPrompt, loop, run>>
                  /\ isAiProcessing' = ClearBusy(out.kind).busy
                  /\ aiMessage' = ClearBusy(out.kind).message
                  /\ calls' = calls (-) SetToBag({c})
                  /\ last' = Op("settle",
                                [handler |-> c.handler, fail |-> resp.fail,
                                 parseError |-> FALSE, phase |-> c.phase,
                                 done |-> resp.done, hasUri |-> resp.hasUri,
                                 uri |-> resp.uri],
                                IF out.kind # "rejected" THEN NoAlert
                                ELSE IF text THEN "Generation failed."
                                ELSE "Video generation failed or timed out.", out.kind)
                  /\ UNCHANGED <<selectedAssetId, filters, projectName, projectStatus,
                                 hasService, recorders, currentIndex, now>>

\* The POLL_MS timer of a sleeping call fires: getVideosOperation is sent.
PollTimer(c) ==
    /\ UNCHANGED audioVars
    /\ c.phase = "sleeping"
    /\ now >= c.wakeAt
    /\ calls' = (calls (-) SetToBag({c}))
                   (+) SetToBag({[c EXCEPT !.phase = "poll", !.wakeAt = NullTime]})
    /\ last' = Op("poll", c.handler, NoAlert, "")
    /\ toggleRun' = NoToggles
    /\ UNCHANGED <<assets, selectedAssetId, filters, projectName, projectStatus,
                   isAiProcessing, aiMessage, veoPrompt, hasService, nextId, recorders,
                   loop, currentIndex, now, run>>

\* The Veo calls suspended at one await of the service: at generateVideos
\* ("request"), at the sleep ("sleeping") or at getVideosOperation ("poll").
VeoHandlers == {"generateVeoClip", "handleGenerateVeoText"}
InPhase(b, ph) == {c \in BagToSet(b) : c.handler \in VeoHandlers /\ c.phase = ph}
PhaseCount(b, ph) == BagCardinality([c \in InPhase(b, ph) |-> CopiesIn(c, b)])

TitleResponses == \E c \in BagToSet(calls) : TitleResponse(c)
FilterResponses == \E c \in BagToSet(calls) : FilterResponse(c, SuggestionTexts)
\* The suggestion is the example of the prompt, or prose.
PlainFilterResponses ==
    \E c \in BagToSet(calls) : FilterResponse(c, {<<InRangeJson>>, <<Prose>>})
VideoResponses == \E c \in BagToSet(calls) : VideoResponse(c)
PollTimers == \E c \in BagToSet(calls) : PollTimer(c)

\* Nothing happens until the next timer is due.
SkipToTimer ==
    /\ UNCHANGED audioVars
    /\ Deadlines # {}
    /\ \A d \in Deadlines : d > now
    /\ now' = CHOOSE d \in Deadlines : \A e \in Deadlines : d <= e
    /\ now' <= MaxTime
    /\ last' = Op("tick", 0, NoAlert, "")
    /\ UNCHANGED <<assets, selectedAssetId, filters, projectName, projectStatus,
                   isAiProcessing, aiMessage, veoPrompt, hasService, nextId, calls,
                   recorders, loop, currentIndex, toggleRun, run>>

\* The same passage of time with the clock read from the instant reached:
\* what a timer has left to wait is what counts, so every pending deadline
\* moves back by the time that passed and now keeps its value. No slideshow
\* run is measuring time meanwhile.
ElapseToTimer ==
    /\ UNCHANGED audioVars
    /\ Deadlines # {}
    /\ \A d \in Deadlines : d > now
    /\ loop.startTime = NullTime
    /\ LET next == CHOOSE d \in Deadlines : \A e \in Deadlines : d <= e
           Shift(t) == IF t = NullTime THEN NullTime ELSE t - (next - now)
       IN /\ calls' = BagOfAll(LAMBDA c : [c EXCEPT !.wakeAt = Shift(@)], calls)
          /\ recorders' = [i \in 1..Len(recorders) |->
                             [recorders[i] EXCEPT !.timer = Shift(@),
                                                  !.driveAt = Shift(@)]]
    /\ last' = Op("tick", 0, NoAlert, "")
    /\ UNCHANGED <<assets, selectedAssetId, filters, projectName, projectStatus,
                   isAiProcessing, aiMessage, veoPrompt, hasService, nextId, loop,
                   currentIndex, now, toggleRun, run>>

\* An upload of an image and a video.
UploadPair == handleUpload(<<ImagePng, VideoMp4>>)

(* ------------------------------ filters ------------------------------- *)
\* <input type="range" min={0} max={key === 'blur' ? 20 : 200}>: the value
\* the control reports for a pointer position is within its min and max.
RangeValue(key, raw) ==
    Max(SLIDER_MIN, Min(IF key = "blur" THEN BLUR_MAX ELSE SLIDER_MAX, raw))

\* Pointer positions, some beyond the ends of the track.
SliderPositions == {-10, 300}

\* handleFilterChange: setFilters(prev => ({...prev, [key]: value}))
handleFilterChange(key, value) ==
    /\ UNCHANGED audioVars
    /\ filters' = [k \in DOMAIN filters \cup {key} |-> IF k = key THEN value ELSE filters[k]]
    /\ loop' = StageEffect(projectStatus = PLAYING)
    /\ run' = RunOf(projectStatus = PLAYING)
    /\ last' = Op("filterChange", <<key, value>>, NoAlert, "")
    /\ toggleRun' = NoToggles
    /\ UNCHANGED <<assets, selectedAssetId, projectName, projectStatus, isAiProcessing,
                   aiMessage, veoPrompt, hasService, nextId, calls, recorders,
                   currentIndex, now>>

\* One slider per key of filters.
SlideFilter ==
    \E key \in DOMAIN filters, raw \in SliderPositions :
        handleFilterChange(key, RangeValue(key, raw))

(* ------------------------------- audio -------------------------------- *)
\* The ids of MOCK_MUSIC_LIBRARY, and the id of a track made by
\* handleFileUpload of the MusicPanel.
MOCK_MUSIC_LIBRARY == {"1", "2", "3"}
UploadedTrack == "upload"

ViaCompressor == {<<"source", "compressor">>, <<"compressor", "destination">>}
Direct == {<<"source", "destination">>}

\* What createMediaElementSource does inside the try of the setup effect.
SetupOutcomes == {"ok", "throws"}

\* The Stage effect on [audioTrack]: the nodes are made once, and connected
\* source -> compressor -> destination; the catch leaves the refs as they
\* were.
AudioSetup(outcome) ==
    IF ~sourceNodeRef /\ outcome = "ok"
    THEN /\ sourceNodeRef' = TRUE
         /\ compressorNodeRef' = TRUE
         /\ connections' = ViaCompressor
    ELSE UNCHANGED <<sourceNodeRef, compressorNodeRef, connections>>

\* The Stage effect on [audioEnhanced]
EnhanceEffect(audioEnhanced) ==
    IF sourceNodeRef /\ compressorNodeRef
    THEN connections' = IF audioEnhanced THEN ViaCompressor ELSE Direct
    ELSE UNCHANGED connections

NotAudio == <<assets, selectedAssetId, filters, projectName, projectStatus,
              isAiProcessing, aiMessage, veoPrompt, hasService, nextId, calls,
              recorders, loop, currentIndex, now, toggleRun, run>>

\* onSelectTrack={setCurrentTrack}: a track of the library (the state changes
\* when it is another object than the current one), or a new uploaded one.
SelectTrack ==
    \E track \in MOCK_MUSIC_LIBRARY \cup {UploadedTrack}, outcome \in SetupOutcomes :
        /\ track \in MOCK_MUSIC_LIBRARY => track # currentTrack
        /\ currentTrack' = track
        /\ AudioSetup(outcome)
        /\ last' = Op("selectTrack", track, NoAlert, outcome)
        /\ UNCHANGED <<isAutoEnhanceAudio, NotAudio>>

\* onToggleEnhance={() => setIsAutoEnhanceAudio(!isAutoEnhanceAudio)}
ToggleEnhance ==
    /\ isAutoEnhanceAudio' = ~isAutoEnhanceAudio
    /\ EnhanceEffect(isAutoEnhanceAudio')
    /\ last' = Op("toggleEnhance", isAutoEnhanceAudio, NoAlert, "")
    /\ UNCHANGED <<currentTrack, sourceNodeRef, compressorNodeRef, NotAudio>>

NextAssets == Upload \/ Select \/ Remove

SpecAssets == Init /\ [][NextAssets]_vars

\* The slideshow and the export: the Stage's play button, the frames, the
\* Export button and the timers.
NextPlayback ==
    \/ UploadPng \/ Remove \/ ClickPlay \/ Frame
    \/ handleDownloadVideo \/ RecordTimers \/ DriveAlerts \/ AdvanceTime

\* process.env.API_KEY is set.
InitKeyed == Init /\ hasService

SpecPlayback == InitKeyed /\ [][NextPlayback]_vars

\* The AI buttons and the service's answers.
NextAi ==
    \/ UploadPair \/ Select \/ SetVeoPrompt
    \/ ClickAutoName \/ ClickAiSuggest \/ ClickAnimate \/ ClickTextToVideo
    \/ TitleResponses \/ PlainFilterResponses \/ VideoResponses \/ PollTimers
    \/ SkipToTimer

SpecAi == Init /\ [][NextAi]_vars

\* The sliders and the AI Suggest button.
NextFilters ==
    \/ UploadPair \/ Select \/ SlideFilter \/ ClickAiSuggest \/ FilterResponses

SpecFilters == InitKeyed /\ [][NextFilters]_vars

\* The handlers of App called as the props they are passed as, whatever the
\* children render.
NextHandlers ==
    \/ UploadPng \/ Select \/ Remove \/ HandlePlayPause \/ handleDownloadVideo

SpecHandlers == InitKeyed /\ [][NextHandlers]_vars

\* The brightness slider.
SlideBrightness ==
    \E raw \in SliderPositions :
        handleFilterChange("brightness", RangeValue("brightness", raw))

\* The first upload of the session: an image and a video.
FirstUpload == nextId = 1 /\ UploadPair

\* The first click on Export.
FirstExport == Len(recorders) = 0 /\ handleDownloadVideo

\* A click on one of the four AI buttons while no AI request is waiting
\* for its answer.
ClickAiButton ==
    /\ BagCardinality(calls) = 0
    /\ (ClickAutoName \/ ClickAiSuggest \/ ClickAnimate \/ ClickTextToVideo)

\* Every control of the editor, used by a user who uploads once, exports
\* once and waits for the answer of an AI button before using the next.
NextApp ==
    \/ FirstUpload \/ Select \/ Remove \/ ClickPlay \/ Frame \/ SlideBrightness
    \/ FirstExport \/ SetVeoPrompt \/ ClickAiButton
    \/ TitleResponses \/ PlainFilterResponses \/ VideoResponses

SpecApp == InitKeyed /\ [][NextApp]_vars

\* The Veo buttons and the Auto-Name button, the answers of the service and
\* the polling timer, over any length of time. Every request is answered
\* (the answer may be a failure) and every timer fires.
NextPoll ==
    \/ UploadPair \/ Select \/ SetVeoPrompt
    \/ ClickAutoName \/ ClickAnimate \/ ClickTextToVideo
    \/ TitleResponses \/ VideoResponses \/ PollTimers \/ ElapseToTimer

SpecPoll ==
    /\ InitKeyed
    /\ [][NextPoll]_vars
    /\ WF_vars(TitleResponses)
    /\ WF_vars(VideoResponses)
    /\ WF_vars(PollTimers)
    /\ WF_vars(ElapseToTimer)

\* The Veo buttons and the Auto-Name button, the answers of the service and
\* the polling timer, on the clock of the session.
NextVeo ==
    \/ FirstUpload \/ Select \/ SetVeoPrompt
    \/ ClickAutoName \/ ClickAnimate \/ ClickTextToVideo
    \/ TitleResponses \/ VideoResponses \/ PollTimers \/ SkipToTimer

SpecVeo == InitKeyed /\ [][NextVeo]_vars

\* The asset library and what changes it: uploads, selections, removals
\* and the Veo generations.
NextLibrary ==
    \/ UploadPng \/ Select \/ Remove \/ SetVeoPrompt
    \/ ClickAnimate \/ ClickTextToVideo \/ VideoResponses

SpecLibrary == InitKeyed /\ [][NextLibrary]_vars

\* The AI Suggest button and every answer to it, with the brightness slider.
NextSuggest ==
    \/ UploadPair \/ Select \/ SlideBrightness \/ ClickAiSuggest \/ FilterResponses

SpecSuggest == InitKeyed /\ [][NextSuggest]_vars

\* The MusicPanel, with uploads and the slideshow.
NextAudio ==
    \/ SelectTrack \/ ToggleEnhance \/ UploadPng \/ ClickPlay \/ Frame

SpecAudio == InitKeyed /\ [][NextAudio]_vars

(* ------------------------------ claims -------------------------------- *)
\* C1: when the service call of an AI handler fails (the request fails, the
\* adapter rejects, or the suggestion cannot be parsed), the handler ends
\* with isAiProcessing = false and aiMessage = "".
C1_FailureClearsBusy ==
    (last.op = "settle"
        /\ (last.arg.fail \/ last.arg.parseError \/ last.result = "rejected"))
    => (isAiProcessing = FALSE /\ aiMessage = "")

\* generateVeoClip has ended on a rejected animateImage.
C1_Witness ==
    /\ last.op = "settle"
    /\ last.arg.handler = "generateVeoClip"
    /\ last.arg.fail
    /\ last.result = "rejected"
    /\ last.alert = "Video generation failed or timed out."
    /\ ~isAiProcessing

\* C2 (as claimed): at most one AI handler is awaiting its service call at
\* any time.
C2_OneRequestAtATime == BagCardinality(calls) <= 1

\* C3 (as claimed): an adapter operation whose request failed ends in a
\* rejection, never in a returned value.
C3_FailureRejects ==
    (last.op = "settle" /\ last.arg.fail) => last.result = "rejected"

\* C4: handleRemoveAsset(id) deletes exactly the asset with that id (the
\* others stay, in their order), clears the selection when id is the
\* selected asset and leaves the selection alone otherwise.
C4_RemoveClearsSelection ==
    [][last'.op = "remove" =>
        LET id == last'.arg
            k == CHOOSE i \in 1..Len(assets) : assets[i].id = id
        IN /\ Cardinality({i \in 1..Len(assets) : assets[i].id = id}) = 1
           /\ Len(assets') = Len(assets) - 1
           /\ \A i \in 1..Len(assets') :
                 assets'[i] = IF i < k THEN assets[i] ELSE assets[i + 1]
           /\ (selectedAssetId = id => selectedAssetId' = NullId)
           /\ (selectedAssetId # id => selectedAssetId' = selectedAssetId)]_vars

\* The selected asset was removed while another asset stays in the list.
C4_Witness ==
    /\ last.op = "remove"
    /\ last.result = last.arg
    /\ selectedAssetId = NullId
    /\ Len(assets) >= 1

\* C5: handleUpload with N files appends N assets, one per file in file
\* order, after the existing assets, which keep their place; a new asset is
\* an 'image' when its file's MIME type begins with the five characters
\* "image" and a 'video' otherwise.
C5_UploadAppendsN ==
    [][last'.op = "upload" =>
        LET files == last'.arg
            old == Len(assets)
        IN /\ Len(assets') = old + Len(files)
           /\ \A i \in 1..old : assets'[i] = assets[i]
           /\ \A i \in 1..Len(files) :
                 /\ assets'[old + i].file = files[i]
                 /\ assets'[old + i].id \notin AssetIds(assets)
                 /\ assets'[old + i].type =
                      IF Len(files[i]) >= 5
                         /\ <<files[i][1], files[i][2], files[i][3], files[i][4],
                              files[i][5]>> = <<"i", "m", "a", "g", "e">>
                      THEN "image" ELSE "video"]_vars

\* Two files, an image and a non-image, were uploaded after an earlier asset.
C5_Witness ==
    /\ last.op = "upload"
    /\ Len(last.arg) = 2
    /\ Len(assets) = 3
    /\ assets[2].type = "image"
    /\ assets[3].type = "video"
    /\ assets[3].file = XImage

\* C7: handlePlayPause sets the status to PLAYING when it is not PLAYING and
\* to IDLE when it is PLAYING and changes nothing else of the application;
\* two consecutive calls that start in IDLE end in IDLE with everything
\* else as it was before the first.
C7_ToggleAndBack ==
    [][last'.op = "playPause" =>
        /\ projectStatus' = (IF projectStatus = PLAYING THEN IDLE ELSE PLAYING)
        /\ Others' = Others
        /\ (toggleRun'.n = 2 => projectStatus' = IDLE /\ Others' = toggleRun'.snap)]_vars

\* Two consecutive toggles from IDLE have run, with assets on the stage.
C7_Witness ==
    /\ toggleRun.n = 2
    /\ last.op = "playPause"
    /\ last.arg = PLAYING
    /\ Len(assets) > 0

\* C8: a session started by handleDownloadVideo is stopped exactly once, by
\* its own timer, 5000 ms after it started, whatever else the user does in
\* between, and the status is IDLE when that timer has fired.
C8_RecordingFixedFiveSeconds ==
    /\ [](\A i \in 1..Len(recorders) :
            /\ recorders[i].state = "recording" =>
                  recorders[i].stops = 0 /\ now <= recorders[i].timer
            /\ recorders[i].state # "recording" => recorders[i].stops = 1)
    /\ [][/\ Len(recorders') >= Len(recorders)
          /\ last'.op = "export" =>
                /\ Len(recorders') = Len(recorders) + 1
                /\ recorders'[Len(recorders')].state = "recording"
                /\ recorders'[Len(recorders')].timer = now + 5000
          /\ \A i \in 1..Len(recorders) :
                \/ recorders'[i].state = recorders[i].state
                      /\ recorders'[i].timer = recorders[i].timer
                \/ /\ recorders[i].state = "recording"
                   /\ last'.op = "recordTimer"
                   /\ last'.arg = i
                   /\ now = recorders[i].timer
                   /\ projectStatus' = IDLE]_vars

\* The first of two overlapping sessions has just been stopped by its timer,
\* 5000 ms after the application started, with assets on the stage.
C8_Witness ==
    /\ Len(recorders) = 2
    /\ recorders[1].state = "inactive"
    /\ recorders[2].state = "recording"
    /\ last.op = "recordTimer"
    /\ last.arg = 1
    /\ now = Tick + 5000
    /\ Len(assets) > 0

\* C9 (as claimed): the status is RECORDING whenever a recording session
\* is active, and only a session's own completion changes it away from
\* RECORDING.
C9_StatusReflectsRecording ==
    /\ []((\E i \in 1..Len(recorders) : recorders[i].state = "recording")
            => projectStatus = RECORDING)
    /\ [][projectStatus = RECORDING /\ projectStatus' # RECORDING
            => last'.op = "recordTimer"]_vars

\* C10 (as claimed): a playback run over N >= 1 assets whose asset list and
\* filters do not change calls onPlaybackComplete exactly once, at the first
\* frame with elapsed >= N * 3000, requests no frame after it, and the
\* status is then IDLE.
C10_CompletesExactlyOnce ==
    /\ (last.op = "frame" /\ Len(assets) >= 1) =>
          /\ last.result = "complete" <=> last.arg >= Len(assets) * 3000
          /\ last.result = "complete" =>
                ~loop.scheduled /\ projectStatus = IDLE /\ run.completions = 1
          /\ last.result # "complete" => loop.scheduled /\ run.completions = 0
    /\ run.completions <= 1
    /\ (run.started /\ ~loop.scheduled /\ Len(assets) >= 1) => run.completions = 1

\* C10 (amended): the same, for a run during which neither the Export
\* button nor a recording timer changes the status.
C10_CompletesOnceUnlessInterrupted ==
    /\ (last.op = "frame" /\ Len(assets) >= 1) =>
          /\ last.result = "complete" <=> last.arg >= Len(assets) * 3000
          /\ last.result = "complete" =>
                ~loop.scheduled /\ projectStatus = IDLE /\ run.completions = 1
          /\ last.result # "complete" => loop.scheduled /\ run.completions = 0
    /\ run.completions <= 1
    /\ (run.started /\ ~loop.scheduled /\ Len(assets) >= 1 /\ ~run.interrupted)
          => run.completions = 1

\* A run over two assets has completed at a frame later than 6000 ms.
C10_Witness ==
    /\ last.op = "frame"
    /\ last.result = "complete"
    /\ Len(assets) = 2
    /\ last.arg > 6000
    /\ projectStatus = IDLE

\* C6 (as claimed): brightness, contrast, saturation and sepia are within
\* 0..200 and blur within 0..20 in every reachable state.
C6_FiltersInRange ==
    /\ filters.brightness \in 0..200
    /\ filters.contrast \in 0..200
    /\ filters.saturation \in 0..200
    /\ filters.sepia \in 0..200
    /\ filters.blur \in 0..20


\* C11: at every frame drawn in a run over N >= 1 assets, with elapsed time
\* e < N * 3000, the slide shown is floor(e / 3000), an index in 0..N-1, and
\* from one frame to the next of the same run the index never decreases.
C11_SlideIndexFollowsTime ==
    /\ [](last.op = "frame" /\ last.result = "drawn"
            => /\ Len(assets) >= 1
               /\ last.arg < Len(assets) * SLIDE_DURATION
               /\ loop.lastIndex = last.arg \div SLIDE_DURATION
               /\ currentIndex = loop.lastIndex
               /\ currentIndex \in 0..(Len(assets) - 1))
    /\ [][last'.op = "frame" /\ last'.result = "drawn"
             /\ loop.lastIndex >= 0 /\ loop'.startTime = loop.startTime
            => loop'.lastIndex >= loop.lastIndex]_vars

\* The second slide of two is on the canvas.
C11_Witness ==
    /\ last.op = "frame"
    /\ last.result = "drawn"
    /\ Len(assets) = 2
    /\ last.arg >= SLIDE_DURATION
    /\ currentIndex = 1


\* C12: animateImage and generateVideoFromText return only after an operation
\* with done = true has been observed; a poll is sent only after an answer
\* with done = false (none when the first answer is done) and only once the
\* 5000 ms sleep started at that answer is over; the value returned is the
\* uri followed by "&key=" and the key when the operation has a uri, and
\* null otherwise.
C12_PollUntilDone ==
    /\ [](last.op = "settle" /\ last.arg.handler \in VeoHandlers
            /\ last.result # "rejected"
            => /\ last.arg.done
               /\ last.result = "value" <=> last.arg.hasUri /\ last.arg.uri # <<>>
               /\ last.result = "value"
                    => assets[Len(assets)].url = last.arg.uri \o <<"&key=", ApiKey>>)
    /\ [][/\ (PhaseCount(calls', "sleeping") > PhaseCount(calls, "sleeping"))
              => (/\ last'.op = "response"
                  /\ \E c \in InPhase(calls, "request") \cup InPhase(calls, "poll") :
                        calls' = (calls (-) SetToBag({c}))
                                 (+) SetToBag({[c EXCEPT !.phase = "sleeping",
                                                         !.wakeAt = now + POLL_MS]}))
          /\ (PhaseCount(calls', "poll") > PhaseCount(calls, "poll"))
              => (/\ last'.op = "poll"
                  /\ PhaseCount(calls', "sleeping") < PhaseCount(calls, "sleeping")
                  /\ \E c \in InPhase(calls, "sleeping") : now >= c.wakeAt)
          /\ (last'.op = "response" => last'.result = "pending")
          /\ \A c \in InPhase(calls', "sleeping") : c.wakeAt - POLL_MS \in 1..now'
         ]_vars

\* A Veo handler has resumed with a video URL after at least one poll.
C12_Witness ==
    /\ last.op = "settle"
    /\ last.arg.handler \in {"generateVeoClip", "handleGenerateVeoText"}
    /\ last.arg.phase = "poll"
    /\ last.result = "value"
    /\ now >= Tick + POLL_MS


\* C13: the asset list grows only through handleUpload, or through a Veo
\* handler that got a URL and appends exactly one asset of type "video";
\* it shrinks only through handleRemoveAsset; the assets that stay keep
\* their records and their order, and every other step leaves the list as
\* it is.
C13_AssetListFrame ==
    [][LET n == Len(assets)
           m == Len(assets')
       IN assets' # assets
          => \/ /\ last'.op = "upload"
                /\ m = n + Len(last'.arg)
                /\ SubSeq(assets', 1, n) = assets
             \/ /\ last'.op = "settle"
                /\ last'.arg.handler \in VeoHandlers
                /\ last'.result = "value"
                /\ m = n + 1
                /\ SubSeq(assets', 1, n) = assets
                /\ assets'[m].type = "video"
             \/ /\ last'.op = "remove"
                /\ m < n
                /\ \E i \in 1..n :
                      assets' = SubSeq(assets, 1, i - 1) \o SubSeq(assets, i + 1, n)
      ]_vars

\* A generated video stands after the uploaded assets that are left, while
\* the slideshow is in the state a later click left it in.
C13_Witness ==
    /\ Len(assets) = 2
    /\ assets[1].id = 2
    /\ assets[2].type = "video"
    /\ assets[2].id = 3
    /\ last.op \in {"playPause", "filterChange", "export", "select"}


\* C14: when the text of the suggestion, its code-fence markers removed, is
\* not the text of one JSON value, applySmartFilters leaves the five filter
\* values as they were, shows no dialog, and still ends with
\* isAiProcessing = false and aiMessage = "".
C14_ParseFailureSwallowed ==
    [][LET text == last'.arg.text
           body == SelectSeq(text, LAMBDA x : x.t \notin {"fence-json", "fence", "ws"})
       IN /\ last'.op = "settle"
          /\ last'.arg.handler = "applySmartFilters"
          /\ ~(Len(body) = 1 /\ body[1].t \in {"object", "null"})
          => /\ filters' = filters
             /\ last'.alert = NoAlert
             /\ ~isAiProcessing'
             /\ aiMessage' = ""
      ]_vars

\* applySmartFilters has ended on a suggestion of prose followed by JSON,
\* with a slider away from its default.
C14_Witness ==
    /\ last.op = "settle"
    /\ last.arg.handler = "applySmartFilters"
    /\ last.arg.text = <<Prose, InRangeJson>>
    /\ filters # DEFAULT_FILTERS
    /\ ~isAiProcessing


\* C15: filters always has exactly the keys brightness, contrast,
\* saturation, blur and sepia, each holding a number; a slider change alters
\* the value of the named key only; the merge of an AI suggestion alters
\* only keys present in the suggestion and adds no key.
C15_FiveNumericKeys ==
    /\ [](/\ DOMAIN filters = {"brightness", "contrast", "saturation", "blur", "sepia"}
           /\ \A k \in DOMAIN filters : filters[k] \in Int)
    /\ [][last'.op = "filterChange"
            => /\ DOMAIN filters' = DOMAIN filters
               /\ \A k \in DOMAIN filters \ {last'.arg[1]} : filters'[k] = filters[k]]_vars
    /\ [][last'.op = "settle" /\ last'.arg.handler = "applySmartFilters"
            => /\ DOMAIN filters' = DOMAIN filters
               /\ \A k \in DOMAIN filters :
                     filters'[k] # filters[k]
                     => \E i \in 1..Len(last'.arg.text) :
                           \E mem \in last'.arg.text[i].v : mem[1] = k]_vars


\* C16: whenever a handler has set isAiProcessing to true, isAiProcessing
\* eventually becomes false, given only that every request is answered or
\* fails.
C16_BusyEventuallyClears == isAiProcessing ~> ~isAiProcessing


\* C17: in every state where the audio graph exists, the source goes
\* through the compressor to the destination when audio enhancement is on,
\* and straight to the destination when it is off.
C17_RoutingFollowsEnhance ==
    sourceNodeRef /\ compressorNodeRef
    => connections = IF isAutoEnhanceAudio THEN ViaCompressor ELSE Direct


\* C18: whenever projectStatus is PLAYING it becomes IDLE without a further
\* user action, frames being delivered: so in every state with
\* projectStatus = PLAYING something that will set it is pending, a frame
\* of the Stage loop or the stop timer of a recording.
C18_PlaybackCanEnd ==
    projectStatus = PLAYING
    => \/ loop.scheduled
       \/ \E i \in 1..Len(recorders) : recorders[i].state = "recording"


\* C19: while an AI service call started by a handler of App has not
\* settled, isAiProcessing is true; no handler clears the flag while the
\* request of another is outstanding.
C19_BusyCoversRequests ==
    /\ [](BagCardinality(calls) > 0 => isAiProcessing)
    /\ [][isAiProcessing /\ ~isAiProcessing' => BagCardinality(calls') = 0]_vars

\* C20: selectedAssetId is null or the id of an asset of the list, after
\* any uploads, selections, removals and AI generations.
C20_SelectionInList ==
    selectedAssetId = NullId \/ selectedAssetId \in AssetIds(assets)

\* The generated video is selected and an uploaded asset has just been
\* removed.
C20_Witness ==
    /\ last.op = "remove"
    /\ last.arg # selectedAssetId
    /\ selectedAssetId = 3
    /\ \E i \in 1..Len(assets) : assets[i].id = 3 /\ assets[i].type = "video"
    /\ Len(assets) = 2

====
